---- MODULE Spec2Model ----
(***************************************************************************)
(* A model of analyse-to-api.py: the button handler that decodes an        *)
(* OpenPrescribing analyse URL, the call-budget gate, the two fetch loops  *)
(* of extract_data, and the merge / column reorder / display step.         *)
(***************************************************************************)
EXTENDS Integers, Sequences, FiniteSets, TLC

(***************************************************************************)
(* Program constant and the bounds of the model.                           *)
(***************************************************************************)
API_CALL_LIMIT == 100

\* longest orgIds list of the small requests
MaxOrg == 1
\* longest numIds list of the small requests
MaxNum == 2
\* most rows one spending response carries
MaxRows == 1
\* longest argument list handed to the pure functions
MaxArgs == 3
\* longest column list handed to the column reorder
MaxCols == 4

(***************************************************************************)
(* Generic helpers on sequences.                                           *)
(***************************************************************************)
Range(s) == {s[i] : i \in 1..Len(s)}

SeqsUpTo(S, n) == UNION {[1..m -> S] : m \in 0..n}

NoDup(s) == \A i, j \in 1..Len(s) : i # j => s[i] # s[j]

\* list.index(x): the first position holding x
IndexOf(s, x) == CHOOSE i \in 1..Len(s) : s[i] = x /\ \A j \in 1..(i-1) : s[j] # x

\* list.pop(i): the list without position i
RemoveAt(s, i) == [j \in 1..(Len(s)-1) |-> IF j < i THEN s[j] ELSE s[j+1]]

\* the concatenation of a list of lists
RECURSIVE Flatten(_)
Flatten(ss) ==
    IF Len(ss) = 0 THEN <<>>
    ELSE IF Len(ss) = 1 THEN ss[1]
    ELSE LET h == Len(ss) \div 2
         IN  Flatten(SubSeq(ss, 1, h)) \o Flatten(SubSeq(ss, h + 1, Len(ss)))

Max(S) == CHOOSE x \in S : \A y \in S : y <= x

(***************************************************************************)
(* IEEE-754 binary64 arithmetic, as Python's float does it, on the two     *)
(* operations of the progress computation: int / int (true division,       *)
(* correctly rounded) and float * int, each rounded to nearest, ties to    *)
(* even, followed by int() (truncation).  A float is [m, e] of value       *)
(* m * 2^(e - 52), m an integer of 53 bits.  Integers of that size are     *)
(* held as lists of 16-bit limbs, least significant first.                 *)
(***************************************************************************)
MantissaBits == 53

LimbBits == 16

RECURSIVE Pow2(_)
Pow2(n) == IF n = 0 THEN 1 ELSE 2 * Pow2(n - 1)

Base == Pow2(LimbBits)

\* the least s >= 0 with k * 2^s >= n
RECURSIVE ShiftFor(_, _, _)
ShiftFor(k, n, s) == IF k * Pow2(s) >= n THEN s ELSE ShiftFor(k, n, s + 1)

\* x without its leading zero limbs
Trim(x) ==
    LET used == {i \in 1..Len(x) : x[i] # 0}
    IN  IF used = {} THEN <<>> ELSE SubSeq(x, 1, Max(used))

\* the number of bits of a limb v, and of a trimmed x
LimbLen(v) == CHOOSE b \in 0..LimbBits : v < Pow2(b) /\ (b = 0 \/ v >= Pow2(b - 1))

BitLen(x) ==
    IF x = <<>> THEN 0 ELSE LimbBits * (Len(x) - 1) + LimbLen(x[Len(x)])

\* 2^sh
BigPow2(sh) ==
    [i \in 1..(sh \div LimbBits + 1) |->
        IF i = sh \div LimbBits + 1 THEN Pow2(sh % LimbBits) ELSE 0]

\* x + 1
RECURSIVE BigInc(_)
BigInc(x) ==
    IF x = <<>> THEN <<1>>
    ELSE IF x[1] + 1 < Base THEN <<x[1] + 1>> \o Tail(x)
    ELSE <<0>> \o BigInc(Tail(x))

\* x * c + carry for a small integer c
RECURSIVE BigMulSmall(_, _, _)
BigMulSmall(x, c, carry) ==
    IF x = <<>> THEN IF carry = 0 THEN <<>> ELSE <<carry>>
    ELSE LET t == x[1] * c + carry
         IN  <<t % Base>> \o BigMulSmall(Tail(x), c, t \div Base)

\* quotient and remainder of (r * Base^Len(x) + x) by a small integer n
RECURSIVE BigDivSmall(_, _, _)
BigDivSmall(x, n, r) ==
    IF x = <<>> THEN [q |-> <<>>, r |-> r]
    ELSE LET cur  == r * Base + x[Len(x)]
             rest == BigDivSmall(SubSeq(x, 1, Len(x) - 1), n, cur % n)
         IN  [q |-> Append(rest.q, cur \div n), r |-> rest.r]

\* x shifted right by t bits
BigShiftRight(x, t) ==
    LET y == SubSeq(x, t \div LimbBits + 1, Len(x))
        b == t % LimbBits
    IN  Trim([i \in 1..Len(y) |->
                (y[i] \div Pow2(b))
                + (IF i < Len(y) THEN (y[i + 1] % Pow2(b)) * Pow2(LimbBits - b)
                   ELSE 0)])

\* round to nearest, ties to even: `up` says the discarded part is above
\* one half, `tie` that it is exactly one half
RoundBig(x, up, tie) ==
    IF up \/ (tie /\ x[1] % 2 = 1) THEN BigInc(x) ELSE x

\* a rounded mantissa of 54 bits is 2^53: renormalise
Normalise(x, e) ==
    IF BitLen(x) > MantissaBits
    THEN [m |-> BigShiftRight(x, 1), e |-> e + 1]
    ELSE [m |-> x, e |-> e]

\* k / n for integers 1 <= k <= n: with k * 2^s / n in [1, 2), the
\* mantissa is k * 2^(s + 52) / n rounded
FloatDiv(k, n) ==
    LET s   == ShiftFor(k, n, 0)
        num == BigMulSmall(BigPow2(s + MantissaBits - 1), k, 0)
        d   == BigDivSmall(num, n, 0)
    IN  Normalise(RoundBig(Trim(d.q), 2 * d.r > n, 2 * d.r = n), 0 - s)

\* f * c for a float f and an integer 1 <= c < 2^15
FloatMulInt(f, c) ==
    LET p     == Trim(BigMulSmall(f.m, c, 0))
        extra == BitLen(p) - MantissaBits
        low   == p[1] % Pow2(extra)
        half  == IF extra > 0 THEN Pow2(extra - 1) ELSE 1
    IN  Normalise(RoundBig(BigShiftRight(p, extra), low > half,
                           extra > 0 /\ low = half),
                  f.e + extra)

\* int(f) for a float 0 < f < 2^16: the bits left of the binary point
FloatToInt(f) ==
    IF f.e < 0 THEN 0
    ELSE LET i == BigShiftRight(f.m, MantissaBits - 1 - f.e)
         IN  IF i = <<>> THEN 0 ELSE i[1]

(***************************************************************************)
(* The values requests are built from.  A product identifier is a string,  *)
(* so that its length is the length the code tests.                        *)
(***************************************************************************)
OrgTypes == {"CCG"}

OrgIdVals == {"14L", "15E"}

\* a 15-character presentation code and a 9-character chemical code
NumIdVals == {"0407010H0AAAMAM", "0407010H0"}

\* the identifiers of NumIdVals, one more of 15, and one of 16 characters
CodeVals == NumIdVals \cup {"0501013B0AAABAB", "0407010H0AAAMAMX"}

ColumnVals == {"items", "quantity", "actual_cost", "date", "num_id", "name"}

\* the keys of one row of a spending_by_org response, in response order
SpendingColumns == <<"items", "quantity", "actual_cost", "date", "row_id">>

(***************************************************************************)
(* The remote API.  name_api[num_id] is the JSON list the bnf_code         *)
(* endpoint answers with, spending_api[<<org_id, num_id>>] the number of   *)
(* rows the spending_by_org endpoint answers with.  The service answers    *)
(* the same request the same way throughout one run.                       *)
(***************************************************************************)
NameKinds == {"empty", "unnamed", "named"}

NameResponse(num_id, kind) ==
    CASE kind = "empty"   -> <<>>
      [] kind = "unnamed" -> <<[id |-> num_id, type |-> "chemical"]>>
      [] kind = "named"   -> <<[id |-> num_id, name |-> "first"],
                               [id |-> num_id, name |-> "second"]>>

NameResponses(num_id) == {NameResponse(num_id, kind) : kind \in NameKinds}

\* the rows of one spending response
SpendingData(org_id, num_id, r) ==
    [j \in 1..r |-> [c \in Range(SpendingColumns) |->
                        IF c = "row_id" THEN org_id ELSE j]]

(***************************************************************************)
(* The state.                                                              *)
(***************************************************************************)
VARIABLES
    url,            \* the text input: [text, fragment], fragment the parse_qs mapping
    name_api,       \* the bnf_code endpoint
    spending_api,   \* the spending_by_org endpoint
    pc,             \* where the script is
    org,            \* extract_data's parameters
    org_ids,
    num_ids,
    api_calls,      \* extract_data's locals
    total_calls,
    call_count,
    progress,       \* the value last handed to progress_bar.progress
    num_id_names,
    dataframes,
    oi,             \* position of the org_ids loop
    ni,             \* position of the num_ids loop running
    requests,       \* every requests.get issued, in order
    ui,             \* every st.write / st.error / st.warning / st.markdown, in order
    final_df,       \* the table handed to st.dataframe: <<>> or <<table>>
    fn_args,        \* a pure function under test: its arguments
    fn_ret          \* and what it returned

vars == <<url, name_api, spending_api, pc, org, org_ids, num_ids, api_calls,
          total_calls, call_count, progress, num_id_names, dataframes, oi, ni,
          requests, ui, final_df, fn_args, fn_ret>>

runVars == <<org, org_ids, num_ids, api_calls, total_calls, call_count, progress,
             num_id_names, dataframes, oi, ni, requests, final_df>>

(***************************************************************************)
(* The pure functions of the script.                                       *)
(***************************************************************************)
\* parse_url: the fragment of the URL parsed as a query string.  A URL is
\* held with its fragment already a mapping from key to list of values, and
\* a value of orgIds / numIds as the list of its comma-separated fields.
parse_url(u) == u.fragment

\* a budget that counts the organisations in place of the products
calculate_api_calls_orgs(o_ids, n_ids) == Len(o_ids) + (Len(o_ids) * Len(n_ids))

calculate_api_calls(o_ids, n_ids) == Len(n_ids) + (Len(o_ids) * Len(n_ids))

\* the tail of fetch_name_for_num_id: the name out of the response
NameOfResponse(data) ==
    IF data # <<>>
    THEN IF "name" \in DOMAIN data[1] THEN data[1]["name"] ELSE ""
    ELSE ""

\* a loop that takes every identifier not of 15 characters for a shorter one
RECURSIVE MixedLoopElse(_, _, _)
MixedLoopElse(codes, has_vmp, has_shorter_code) ==
    IF codes = <<>> THEN <<has_vmp, has_shorter_code>>
    ELSE IF Len(Head(codes)) = 15
         THEN MixedLoopElse(Tail(codes), TRUE, has_shorter_code)
         ELSE MixedLoopElse(Tail(codes), has_vmp, TRUE)

RECURSIVE MixedLoop(_, _, _)
MixedLoop(codes, has_vmp, has_shorter_code) ==
    IF codes = <<>> THEN <<has_vmp, has_shorter_code>>
    ELSE LET code == Head(codes)
         IN  IF Len(code) = 15 THEN MixedLoop(Tail(codes), TRUE, has_shorter_code)
             ELSE IF Len(code) < 15 THEN MixedLoop(Tail(codes), has_vmp, TRUE)
             ELSE MixedLoop(Tail(codes), has_vmp, has_shorter_code)

check_for_mixed_code_types(codes) ==
    LET f == MixedLoop(codes, FALSE, FALSE)
    IN  IF f[1] /\ f[2] THEN TRUE ELSE FALSE

\* one pass of the reorder loop: cols.append(cols.pop(cols.index(col)))
MoveLast(cols, col) ==
    IF col \in Range(cols)
    THEN Append(RemoveAt(cols, IndexOf(cols, col)), col)
    ELSE cols

\* a reorder that moves the three columns only when all three are there
ReorderColumnsTogether(cols) ==
    IF {"items", "quantity", "actual_cost"} \subseteq Range(cols)
    THEN MoveLast(MoveLast(MoveLast(cols, "items"), "quantity"), "actual_cost")
    ELSE cols

ReorderColumns(cols) ==
    MoveLast(MoveLast(MoveLast(cols, "items"), "quantity"), "actual_cost")

\* int((call_count / total_calls) * 100)
Percentage(k, n) == FloatToInt(FloatMulInt(FloatDiv(k, n), 100))

(***************************************************************************)
(* The pandas operations extract_data uses.  A table is [columns, rows],   *)
(* a row a function on the columns.                                        *)
(***************************************************************************)
\* pd.DataFrame(data) for a list of dicts that share their keys in order
DataFrame(data, columns) ==
    IF data = <<>> THEN [columns |-> <<>>, rows |-> <<>>]
    ELSE [columns |-> columns, rows |-> data]

\* df[col] = scalar
SetColumn(df, col, v) ==
    [columns |-> IF col \in Range(df.columns) THEN df.columns
                 ELSE Append(df.columns, col),
     rows    |-> [j \in 1..Len(df.rows) |->
                    [c \in Range(df.columns) \cup {col} |->
                        IF c = col THEN v ELSE df.rows[j][c]]]]

\* the columns of pd.concat: the union, in order of first appearance
RECURSIVE UnionColumns(_)
UnionColumns(dfs) ==
    IF Len(dfs) = 0 THEN <<>>
    ELSE IF Len(dfs) = 1 THEN dfs[1].columns
    ELSE LET h == Len(dfs) \div 2
             a == UnionColumns(SubSeq(dfs, 1, h))
             b == UnionColumns(SubSeq(dfs, h + 1, Len(dfs)))
         IN  a \o SelectSeq(b, LAMBDA c : c \notin Range(a))

\* pd.concat(dfs, ignore_index=True)
Concat(dfs) ==
    LET columns == UnionColumns(dfs)
        widen(r) == [c \in Range(columns) |->
                        IF c \in DOMAIN r THEN r[c] ELSE "NaN"]
        all == Flatten([d \in 1..Len(dfs) |-> dfs[d].rows])
    IN  [columns |-> columns, rows |-> [j \in 1..Len(all) |-> widen(all[j])]]

\* left.merge(right, on='num_id', how='left'), right holding num_id and name,
\* left holding no name column: a left row once per right row of its key,
\* in right order, and once with no name when no right row has its key
MergeNames(left, right) ==
    LET matches(r) == SelectSeq(right, LAMBDA x : x.num_id = r["num_id"])
        joined(r)  ==
            IF matches(r) = <<>>
            THEN << [c \in DOMAIN r \cup {"name"} |->
                        IF c = "name" THEN "NaN" ELSE r[c]] >>
            ELSE [m \in 1..Len(matches(r)) |->
                    [c \in DOMAIN r \cup {"name"} |->
                        IF c = "name" THEN matches(r)[m].name ELSE r[c]]]
    IN  [columns |-> Append(left.columns, "name"),
         rows    |-> Flatten([j \in 1..Len(left.rows) |-> joined(left.rows[j])])]


(***************************************************************************)
(* The requests the script sends.                                          *)
(***************************************************************************)
\* .../api/1.0/bnf_code/?exact=true&format=json&q={num_id}
NameRequest(num_id) ==
    [endpoint |-> "bnf_code", q |-> num_id]

\* a spending request with the product and the organisation swapped
SpendingRequestSwapped(num_id, org_id, org_type) ==
    [endpoint |-> "spending_by_org", code |-> org_id, org |-> num_id,
     org_type |-> org_type]

\* .../api/1.0/spending_by_org/?code={num_id}&format=json&org={org_id}&org_type={org}
SpendingRequest(num_id, org_id, org_type) ==
    [endpoint |-> "spending_by_org", code |-> num_id, org |-> org_id,
     org_type |-> org_type]

(***************************************************************************)
(* The button handler, up to the call of extract_data.                     *)
(***************************************************************************)
\* query_components.get(key, [default])[0]
FirstValue(qc, key, default) ==
    IF key \in DOMAIN qc THEN qc[key][1] ELSE default

\* checks in which the denominator error does not set error_raised
HandlerChecksDenomShown(has_denom, o_ids, n_ids) ==
    LET denom == IF has_denom THEN <<"error: denominators">> ELSE <<>>
        orgs  == IF o_ids = <<>> THEN <<"error: no organisation">>
                 ELSE IF check_for_mixed_code_types(n_ids)
                      THEN <<"warning: mixed codes">>
                      ELSE <<>>
    IN  [error_raised |-> o_ids = <<>>,
         shown        |-> denom \o orgs]

\* checks in which the mixed-code warning sets error_raised
HandlerChecksWarningBlocks(has_denom, o_ids, n_ids) ==
    LET denom == IF has_denom THEN <<"error: denominators">> ELSE <<>>
        orgs  == IF o_ids = <<>> THEN <<"error: no organisation">>
                 ELSE IF check_for_mixed_code_types(n_ids)
                      THEN <<"warning: mixed codes">>
                      ELSE <<>>
    IN  [error_raised |-> has_denom \/ o_ids = <<>>
                          \/ check_for_mixed_code_types(n_ids),
         shown        |-> denom \o orgs]

\* the checks of the handler: whether an error was raised, and what was shown
HandlerChecks(has_denom, o_ids, n_ids) ==
    LET denom == IF has_denom THEN <<"error: denominators">> ELSE <<>>
        orgs  == IF o_ids = <<>> THEN <<"error: no organisation">>
                 ELSE IF check_for_mixed_code_types(n_ids)
                      THEN <<"warning: mixed codes">>
                      ELSE <<>>
    IN  [error_raised |-> has_denom \/ o_ids = <<>>,
         shown        |-> denom \o orgs]

Button ==
    /\ pc = "idle"
    /\ IF url.text = ""
       THEN /\ pc' = "done"
            /\ UNCHANGED <<ui, runVars>>
       ELSE LET query_components == parse_url(url)
                o     == FirstValue(query_components, "org", "")
                o_ids == FirstValue(query_components, "orgIds", <<>>)
                n_ids == FirstValue(query_components, "numIds", <<>>)
                chk   == HandlerChecks("denomIds" \in DOMAIN query_components,
                                       o_ids, n_ids)
            IN  /\ ui' = ui \o chk.shown
                /\ IF ~chk.error_raised
                   THEN /\ pc' = "extract_data"
                        /\ org' = o
                        /\ org_ids' = o_ids
                        /\ num_ids' = n_ids
                        /\ UNCHANGED <<api_calls, total_calls, call_count, progress,
                                       num_id_names, dataframes, oi, ni, requests,
                                       final_df>>
                   ELSE /\ pc' = "done"
                        /\ UNCHANGED runVars
    /\ UNCHANGED <<url, name_api, spending_api, fn_args, fn_ret>>

(***************************************************************************)
(* extract_data.                                                           *)
(***************************************************************************)
\* a budget check that turns away a request of exactly the limit
TooComplexAtLimit(calls) == calls >= API_CALL_LIMIT

TooComplex(calls) == calls > API_CALL_LIMIT

\* where the script goes when the names loop is at position k
AfterNames(k) ==
    IF k <= Len(num_ids) THEN "names"
    ELSE IF Len(org_ids) >= 1 /\ Len(num_ids) >= 1 THEN "spending"
    ELSE "results"

\* the budget check and the set-up of the run
ExtractStart ==
    /\ pc = "extract_data"
    /\ api_calls' = calculate_api_calls(org_ids, num_ids)
    /\ IF TooComplex(api_calls')
       THEN /\ ui' = ui \o <<"too complex", "reduce">>
            /\ pc' = "done"
            /\ UNCHANGED <<total_calls, call_count, progress, num_id_names, ni, oi>>
       ELSE /\ ui' = ui \o <<"organisation type", "organisations", "products",
                             "calls needed">>
            /\ num_id_names' = <<>>
            /\ total_calls' = Len(num_ids) + Len(org_ids) * Len(num_ids)
            /\ call_count' = 0
            /\ progress' = 0
            /\ ni' = 1
            /\ oi' = 1
            /\ pc' = AfterNames(1)
    /\ UNCHANGED <<url, name_api, spending_api, org, org_ids, num_ids, dataframes,
                   requests, final_df, fn_args, fn_ret>>

\* one pass of the loop over num_ids that fetches the names
NameLookup ==
    /\ pc = "names"
    /\ LET num_id == num_ids[ni]
           name   == NameOfResponse(name_api[num_id])
       IN  /\ call_count' = call_count + 1
           /\ requests' = Append(requests, NameRequest(num_id))
           /\ num_id_names' = Append(num_id_names, [num_id |-> num_id, name |-> name])
           /\ progress' = Percentage(call_count', total_calls)
    /\ ni' = IF ni < Len(num_ids) THEN ni + 1 ELSE 1
    /\ pc' = AfterNames(ni + 1)
    /\ UNCHANGED <<url, name_api, spending_api, org, org_ids, num_ids, api_calls,
                   total_calls, dataframes, oi, ui, final_df, fn_args, fn_ret>>

\* the loop positions after the pass at <<o, n>> of the nested loops
NextPair(o, n) ==
    IF n < Len(num_ids) THEN <<o, n + 1>> ELSE <<o + 1, 1>>

\* one pass of the nested loops over org_ids and num_ids
SpendingCall ==
    /\ pc = "spending"
    /\ LET org_id == org_ids[oi]
           num_id == num_ids[ni]
           data   == SpendingData(org_id, num_id, spending_api[<<org_id, num_id>>])
           df     == SetColumn(DataFrame(data, SpendingColumns), "num_id", num_id)
       IN  /\ call_count' = call_count + 1
           /\ requests' = Append(requests, SpendingRequest(num_id, org_id, org))
           /\ dataframes' = Append(dataframes, df)
           /\ progress' = Percentage(call_count', total_calls)
    /\ oi' = NextPair(oi, ni)[1]
    /\ ni' = NextPair(oi, ni)[2]
    /\ pc' = IF oi' <= Len(org_ids) THEN "spending" ELSE "results"
    /\ UNCHANGED <<url, name_api, spending_api, org, org_ids, num_ids, api_calls,
                   total_calls, num_id_names, ui, final_df, fn_args, fn_ret>>

\* after the loops: concatenate, merge, reorder, show
Results ==
    /\ pc = "results"
    /\ IF dataframes # <<>>
       THEN LET merged == MergeNames(Concat(dataframes), num_id_names)
                cols   == ReorderColumns(merged.columns)
            IN  /\ final_df' = << [columns |-> cols, rows |-> merged.rows] >>
                /\ ui' = ui \o <<"---", "### Results:", "dataframe", "download link">>
       ELSE /\ ui' = ui \o <<"---", "### Results:", "no data">>
            /\ UNCHANGED final_df
    /\ pc' = "done"
    /\ UNCHANGED <<url, name_api, spending_api, org, org_ids, num_ids, api_calls,
                   total_calls, call_count, progress, num_id_names, dataframes, oi,
                   ni, requests, fn_args, fn_ret>>

(***************************************************************************)
(* The initial states: a URL pasted, the button not yet pressed.           *)
(***************************************************************************)
\* the parse_qs mapping of a fragment; "" and <<>> stand for a key left out
Fragment(o, o_ids, n_ids, has_denom) ==
    LET keys == (IF o # "" THEN {"org"} ELSE {})
                \cup (IF o_ids # <<>> THEN {"orgIds"} ELSE {})
                \cup (IF n_ids # <<>> THEN {"numIds"} ELSE {})
                \cup (IF has_denom THEN {"denomIds"} ELSE {})
    IN  [k \in keys |->
            CASE k = "org"      -> <<o>>
              [] k = "orgIds"   -> <<o_ids>>
              [] k = "numIds"   -> <<n_ids>>
              [] k = "denomIds" -> << <<"0407010H0">> >>]

\* an org_ids list of n entries
LongOrgs(n) == [i \in 1..n |-> IF i % 2 = 1 THEN "14L" ELSE "15E"]

\* the lengths of org_ids that put the budget at and just over the limit
LimitLens ==
    UNION {{API_CALL_LIMIT \div p - 1, API_CALL_LIMIT \div p} : p \in 1..MaxNum}

InitRun ==
    /\ pc = "idle"
    /\ org = ""
    /\ org_ids = <<>>
    /\ num_ids = <<>>
    /\ api_calls = 0
    /\ total_calls = 0
    /\ call_count = 0
    /\ progress = 0
    /\ num_id_names = <<>>
    /\ dataframes = <<>>
    /\ oi = 0
    /\ ni = 0
    /\ requests = <<>>
    /\ ui = <<>>
    /\ final_df = <<>>

\* no URL pasted
InitEmpty ==
    /\ url = [text |-> "", fragment |-> [k \in {} |-> <<>>]]
    /\ name_api = [n \in {} |-> <<>>]
    /\ spending_api = [k \in {} |-> 0]

\* a small request, the service answering each request in any way
InitSmall ==
    \E o \in OrgTypes \cup {""}, o_ids \in SeqsUpTo(OrgIdVals, MaxOrg),
       n_ids \in SeqsUpTo(NumIdVals, MaxNum), has_denom \in BOOLEAN :
        /\ url = [text |-> "https://openprescribing.net/analyse/#",
                  fragment |-> Fragment(o, o_ids, n_ids, has_denom)]
        /\ \E kinds \in [Range(n_ids) -> NameKinds] :
              name_api = [n \in Range(n_ids) |-> NameResponse(n, kinds[n])]
        /\ spending_api \in [Range(o_ids) \X Range(n_ids) -> 0..MaxRows]

\* a request at the call limit, the service answering each request alike
InitLimit ==
    \E o \in OrgTypes, len \in LimitLens,
       n_ids \in SeqsUpTo(NumIdVals, MaxNum), has_denom \in BOOLEAN :
        /\ url = [text |-> "https://openprescribing.net/analyse/#",
                  fragment |-> Fragment(o, LongOrgs(len), n_ids, has_denom)]
        /\ \E kind \in NameKinds :
              name_api = [n \in Range(n_ids) |-> NameResponse(n, kind)]
        /\ \E r \in 0..MaxRows :
              spending_api = [k \in OrgIdVals \X Range(n_ids) |-> r]

Init ==
    /\ InitRun
    /\ InitEmpty \/ InitSmall \/ InitLimit
    /\ fn_args = [f |-> "none"]
    /\ fn_ret = <<>>

Next ==
    \/ Button
    \/ ExtractStart
    \/ NameLookup
    \/ SpendingCall
    \/ Results

Spec == Init /\ [][Next]_vars


(***************************************************************************)
(* The pure functions on their own: one call of one function, on           *)
(* arguments drawn from bounded sets.                                      *)
(***************************************************************************)
PureCalls ==
    {[f |-> "calculate_api_calls", org_ids |-> o, num_ids |-> n] :
        o \in SeqsUpTo(OrgIdVals, MaxArgs), n \in SeqsUpTo(NumIdVals, MaxArgs)}
    \cup {[f |-> "check_for_mixed_code_types", codes |-> c] :
        c \in SeqsUpTo(CodeVals, MaxArgs)}
    \cup {[f |-> "reorder", cols |-> c] :
        c \in {x \in SeqsUpTo(ColumnVals, MaxCols) : NoDup(x)}}

InitPure ==
    /\ InitRun
    /\ InitEmpty
    /\ fn_args \in PureCalls
    /\ fn_ret = <<>>

CallCalculate ==
    /\ fn_args.f = "calculate_api_calls"
    /\ fn_ret = <<>>
    /\ fn_ret' = <<calculate_api_calls(fn_args.org_ids, fn_args.num_ids)>>
    /\ UNCHANGED <<url, name_api, spending_api, pc, ui, runVars, fn_args>>

CallCheckMixed ==
    /\ fn_args.f = "check_for_mixed_code_types"
    /\ fn_ret = <<>>
    /\ fn_ret' = <<check_for_mixed_code_types(fn_args.codes)>>
    /\ UNCHANGED <<url, name_api, spending_api, pc, ui, runVars, fn_args>>

\* the reorder of extract_data on a column list
CallReorder ==
    /\ fn_args.f = "reorder"
    /\ fn_ret = <<>>
    /\ fn_ret' = <<ReorderColumns(fn_args.cols)>>
    /\ UNCHANGED <<url, name_api, spending_api, pc, ui, runVars, fn_args>>

NextPure ==
    \/ CallCalculate
    \/ CallCheckMixed
    \/ CallReorder

SpecPure == InitPure /\ [][NextPure]_vars


(***************************************************************************)
(* What the properties speak of.                                           *)
(***************************************************************************)
\* the decoded URL
Decoded == parse_url(url)

HasDenom == "denomIds" \in DOMAIN Decoded

\* extract_data ran past its budget check
PassedBudget == "calls needed" \in Range(ui)

\* the number of requests a request of O organisations and P products is
\* to take: one name lookup per product, one spending call per pair
RequestsOf(O, P) ==
    Cardinality({<<0, p>> : p \in 1..P} \cup ((1..O) \X (1..P)))

\* the requests of a run, in the order they are to be sent
ExpectedRequests ==
    LET P == Len(num_ids)
        O == Len(org_ids)
    IN  [c \in 1..(P + O * P) |->
            IF c <= P
            THEN [endpoint |-> "bnf_code", q |-> num_ids[c]]
            ELSE [endpoint |-> "spending_by_org",
                  code     |-> num_ids[((c - P - 1) % P) + 1],
                  org      |-> org_ids[((c - P - 1) \div P) + 1],
                  org_type |-> org]]

\* the name the lookup of num_id gave: empty when the response was empty
LookedUpName(num_id) ==
    LET data == name_api[num_id]
    IN  IF data = <<>> \/ "name" \notin DOMAIN data[1] THEN "" ELSE data[1].name

\* one row per Spending Record of the spending calls, in call order, each
\* with the num_id of its call and the name looked up for it
ExpectedRows ==
    LET P == Len(num_ids)
        rowsOf(c) ==
            LET o == org_ids[((c - 1) \div P) + 1]
                n == num_ids[((c - 1) % P) + 1]
                data == SpendingData(o, n, spending_api[<<o, n>>])
            IN  [j \in 1..Len(data) |->
                    [col \in DOMAIN data[j] \cup {"num_id", "name"} |->
                        IF col = "num_id" THEN n
                        ELSE IF col = "name" THEN LookedUpName(n)
                        ELSE data[j][col]]]
    IN  Flatten([c \in 1..(Len(org_ids) * P) |-> rowsOf(c)])

\* the columns other than the three, in their order
OtherColumns(cols) ==
    SelectSeq(cols, LAMBDA c : c \notin {"items", "quantity", "actual_cost"})

\* those of the three that are among cols, in the order items, quantity,
\* actual_cost
ValueColumns(cols) ==
    SelectSeq(<<"items", "quantity", "actual_cost">>, LAMBDA c : c \in Range(cols))

(***************************************************************************)
(* The properties.                                                         *)
(***************************************************************************)

\* C1: a request whose budget len(num_ids) + len(org_ids) * len(num_ids)
\* is over 100 sends no request at all, neither a name lookup nor a
\* spending request, and extract_data ends after the 'too complex'
\* message; a request of a budget of 100 or less is not turned away.
C1_OverLimitSendsNothing ==
    LET budget == Len(num_ids) + Len(org_ids) * Len(num_ids)
    IN  /\ budget > 100 =>
              /\ requests = <<>>
              /\ pc \in {"extract_data", "done"}
              /\ dataframes = <<>>
              /\ final_df = <<>>
              /\ pc = "done" =>
                    /\ Len(ui) >= 2
                    /\ SubSeq(ui, Len(ui) - 1, Len(ui)) = <<"too complex", "reduce">>
                    /\ ~PassedBudget
        /\ (budget <= 100 /\ org_ids # <<>> /\ pc = "done") =>
              /\ "too complex" \notin Range(ui)
              /\ PassedBudget

C1_Witness ==
    /\ pc = "done"
    /\ Len(num_ids) + Len(org_ids) * Len(num_ids) > 100
    /\ "too complex" \in Range(ui)
    /\ requests = <<>>

\* C2: when the handler runs on a decoded URL that has a denomIds key, or
\* that has no orgIds key, an error is shown and extract_data is not
\* invoked: no request is sent, whatever numIds holds.
C2_BlockingError ==
    (url.text # "" /\ pc # "idle" /\ (HasDenom \/ "orgIds" \notin DOMAIN Decoded)) =>
        /\ pc = "done"
        /\ requests = <<>>
        /\ org_ids = <<>> /\ num_ids = <<>>
        /\ dataframes = <<>> /\ final_df = <<>>
        /\ Range(ui) \subseteq {"error: denominators", "error: no organisation",
                                "warning: mixed codes"}
        /\ HasDenom => "error: denominators" \in Range(ui)
        /\ "orgIds" \notin DOMAIN Decoded => "error: no organisation" \in Range(ui)

C2_Witness ==
    /\ pc = "done"
    /\ HasDenom
    /\ "orgIds" \in DOMAIN Decoded
    /\ "numIds" \in DOMAIN Decoded
    /\ "error: denominators" \in Range(ui)
    /\ requests = <<>>

\* C3: calculate_api_calls(org_ids, num_ids) returns P + O * P, the P name
\* lookups and the O * P pairs, for the lengths O >= 0 and P >= 0 of its
\* arguments, 0 when both are empty, and the call changes nothing else.
C3_Budget ==
    (fn_args.f = "calculate_api_calls" /\ fn_ret # <<>>) =>
        LET O == Len(fn_args.org_ids)
            P == Len(fn_args.num_ids)
        IN  /\ fn_ret[1] = RequestsOf(O, P)
            /\ fn_ret[1] = P + O * P
            /\ (O = 0 /\ P = 0) => fn_ret[1] = 0
            /\ pc = "idle" /\ ui = <<>> /\ requests = <<>>

C3_Witness ==
    /\ fn_args.f = "calculate_api_calls"
    /\ Len(fn_args.org_ids) = 2
    /\ Len(fn_args.num_ids) = 3
    /\ fn_ret = <<9>>

\* C4: check_for_mixed_code_types(codes) is true exactly when codes holds
\* an identifier of 15 characters and an identifier of fewer than 15; it
\* is false for the empty list and for a list of one family only, and an
\* identifier of more than 15 characters belongs to neither family.
C4_MixedCodes ==
    (fn_args.f = "check_for_mixed_code_types" /\ fn_ret # <<>>) =>
        LET codes == fn_args.codes
        IN  fn_ret[1] = ( /\ \E i \in 1..Len(codes) : Len(codes[i]) = 15
                          /\ \E i \in 1..Len(codes) : Len(codes[i]) < 15 )

C4_Witness ==
    /\ fn_args.f = "check_for_mixed_code_types"
    /\ fn_ret = <<FALSE>>
    /\ \E i \in 1..Len(fn_args.codes) : Len(fn_args.codes[i]) = 15
    /\ \E i \in 1..Len(fn_args.codes) : Len(fn_args.codes[i]) > 15

\* C5, as the claim has it: in every run of the handler that shows the
\* mixed-code warning, extract_data is invoked with the decoded org,
\* org_ids and num_ids.
C5_Original ==
    "warning: mixed codes" \in Range(ui) =>
        /\ pc # "idle"
        /\ org = FirstValue(Decoded, "org", "")
        /\ org_ids = FirstValue(Decoded, "orgIds", <<>>)
        /\ num_ids = FirstValue(Decoded, "numIds", <<>>)
        /\ pc = "done" => (PassedBudget \/ "too complex" \in Range(ui))

\* C5, amended: in every run of the handler that shows the mixed-code
\* warning on a URL with no denomIds key, extract_data is invoked with the
\* decoded org, org_ids and num_ids.
C5_WarningNonBlocking ==
    ("warning: mixed codes" \in Range(ui) /\ ~HasDenom) =>
        /\ pc # "idle"
        /\ org = FirstValue(Decoded, "org", "")
        /\ org_ids = FirstValue(Decoded, "orgIds", <<>>)
        /\ num_ids = FirstValue(Decoded, "numIds", <<>>)
        /\ pc = "done" => (PassedBudget \/ "too complex" \in Range(ui))

C5_Witness ==
    /\ "warning: mixed codes" \in Range(ui)
    /\ ~HasDenom
    /\ pc = "done"
    /\ PassedBudget
    /\ Len(requests) > 0

\* C6: in every run of extract_data that passes the budget check and in
\* which the spending calls return no Spending Record at all, also when
\* calls were made and each answered with an empty response, the 'No data
\* returned' message is shown and neither the table nor the download link.
C6_EmptyResult ==
    ( /\ pc = "done"
      /\ PassedBudget
      /\ \A d \in 1..Len(dataframes) : dataframes[d].rows = <<>> ) =>
        /\ "no data" \in Range(ui)
        /\ final_df = <<>>
        /\ "dataframe" \notin Range(ui)
        /\ "download link" \notin Range(ui)

C8_OneRowPerRecord ==
    final_df # <<>> =>
        /\ Len(final_df[1].rows) = Len(ExpectedRows)
        /\ final_df[1].rows = ExpectedRows

\* C9: in a run of extract_data that passes the budget check, the requests
\* sent are the P name lookups, one per position of num_ids in order, and
\* then the O * P spending requests, for each org_id in order each num_id
\* in order; no position is requested twice, and the run sends
\* calculate_api_calls(org_ids, num_ids) requests in all.
C9_CallSequence ==
    PassedBudget =>
        /\ Len(requests) = call_count
        /\ call_count <= Len(ExpectedRequests)
        /\ requests = SubSeq(ExpectedRequests, 1, call_count)
        /\ pc \in {"results", "done"} =>
              /\ requests = ExpectedRequests
              /\ Len(requests) = api_calls
              /\ Len(requests) = RequestsOf(Len(org_ids), Len(num_ids))
        /\ pc = "names" => call_count < Len(num_ids)
        /\ pc = "spending" => call_count >= Len(num_ids)

C9_Witness ==
    /\ pc = "done"
    /\ PassedBudget
    /\ Len(org_ids) >= 2 /\ org_ids[1] # org_ids[2]
    /\ Len(num_ids) = 2 /\ num_ids[1] # num_ids[2]
    /\ Len(requests) = 2 + Len(org_ids) * 2

\* C10: in every state of a run of extract_data 0 <= call_count <=
\* total_calls with total_calls = P + O * P; the percentage reported after
\* the k-th call is floor(100 * k / total_calls), so it lies in 0..100 and
\* is 100 exactly after the last call; it is not computed when
\* total_calls is 0.
C10_Progress ==
    PassedBudget =>
        /\ total_calls = Len(num_ids) + Len(org_ids) * Len(num_ids)
        /\ 0 <= call_count /\ call_count <= total_calls
        /\ call_count = 0 => progress = 0
        /\ call_count >= 1 =>
              /\ total_calls > 0
              /\ progress = (100 * call_count) \div total_calls
        /\ progress \in 0..100
        /\ progress = 100 <=> (call_count = total_calls /\ total_calls > 0)

====
